---- MODULE Spec2Model ----
(***************************************************************************)
(* Model of the incremental tree crawler of src/figma-node-report.mjs:     *)
(* figmaFetchJson (retry with backoff), mapLimit (bounded worker pool),    *)
(* normalizeNode (childIds, known, other) and crawlSubtree (the frontier   *)
(* crawler).                                                               *)
(*                                                                         *)
(* JavaScript runs one callback at a time, so every action below is one    *)
(* synchronous stretch of code between two suspension points (await).      *)
(* A NodeId is modelled as a natural number; 0 stands for a falsy id (the  *)
(* empty string or a missing id).  The remote file is static: the document *)
(* of an id is decided the first time the server is asked for it and is    *)
(* served unchanged afterwards.  Because the crawler only compares ids for *)
(* equality, new ids are numbered in order of first appearance.  A served  *)
(* document carries the id it was asked under and lists a child at most    *)
(* once; a child stub and the child's own document have independent        *)
(* visible flags.  MaxEdges bounds the child stubs of the whole file and   *)
(* MaxHidden its missing documents, hidden documents and hidden stubs.     *)
(* Within a crawl a call is answered at most MaxTransient times with a     *)
(* retryable status; figmaFetchJson called on its own has no such bound.   *)
(*                                                                         *)
(* A behaviour starts with one of four calls: crawlSubtree (CrawlInit),    *)
(* mapLimit over any list with a unit of work that resolves or rejects     *)
(* (PoolInit), one figmaFetchJson call (FetchInit), or normalizeNode on a  *)
(* raw node taken as a mapping from attribute names to values              *)
(* (NormalizeInit).  CrawlSpec is the crawl alone, with the fairness that  *)
(* its termination rests on.                                               *)
(***************************************************************************)
EXTENDS Integers, Sequences, FiniteSets, TLC

VARIABLES
    rootId,         \* crawlSubtree parameter
    batchSize,      \* crawlSubtree parameter
    concurrency,    \* crawlSubtree parameter; the limit handed to mapLimit
    remote,         \* the remote file: id -> document, for the ids asked so far
    nodeMap,        \* crawlSubtree.nodeMap: id -> normalized node
    toExpand,       \* crawlSubtree.toExpand: the pending queue
    queued,         \* crawlSubtree.queued: the seen set
    fetchedCount,   \* crawlSubtree.fetchedCount
    requestCount,   \* crawlSubtree.requestCount
    pool,           \* the running mapLimit call: items, idx, workers, results, st
    calls,          \* worker -> the figmaFetchJson call its unit is suspended in
    call,           \* a figmaFetchJson call made on its own, with what it has done
    pc,             \* where the caller (of mapLimit, of figmaFetchJson) stands
    error,          \* the error the caller was rejected with (0: none)
    sent,           \* history: the batches handed to fetchNodes, with their round
    started,        \* history: the items of the running mapLimit call, as invoked
    thrown,         \* history: the errors thrown by units of work, in order
    rawNode,        \* a document handed to normalizeNode on its own
    normalized      \* what that call of normalizeNode returned

vars == <<rootId, batchSize, concurrency, remote, nodeMap, toExpand, queued,
          fetchedCount, requestCount, pool, calls, call, pc, error, sent, started,
          thrown, rawNode, normalized>>

\* ------------------------------------------------------------------ bounds
MaxNodes == 4
MaxChildren == 2
MaxEdges == 4
MaxHidden == 1
MaxBatchSize == 2
MaxConcurrency == 2
MaxTransient == 1
MaxItems == 3
MaxListed == 2

NoId == 0
NodeIds == 1..MaxNodes

Min(a, b) == IF a < b THEN a ELSE b
Max(a, b) == IF a > b THEN a ELSE b

RECURSIVE SeqSum(_)
SeqSum(s) == IF s = <<>> THEN 0 ELSE Head(s) + SeqSum(Tail(s))

Range(s) == {s[i] : i \in DOMAIN s}

\* ------------------------------------------------------- figmaFetchJson
maxAttempts == 6

\* a retry test that takes every client or server error for transient
shouldRetryAnyError(status) == status >= 400 /\ status <= 599

shouldRetry(status) ==
    IF status = 429 THEN TRUE
    ELSE IF status >= 500 /\ status <= 599 THEN TRUE
    ELSE FALSE

\* res.ok
ResOk(status) == status >= 200 /\ status <= 299

\* the condition of the retry branch
\* a cap compared against maxAttempts instead of maxAttempts - 1
WillRetryOneMore(attempt, status) == attempt < maxAttempts /\ shouldRetry(status)

WillRetry(attempt, status) ==
    attempt < maxAttempts - 1 /\ shouldRetry(status)

\* ---------------------------------------------------------- isVisibleNode
\* a visibility test that looks at the presence of the flag, not at its value
isVisibleNodeIfFlagged(node) == node.visible # "absent"

\* lines 198-201.  A visible flag is "false" or "absent" (the attribute is
\* omitted); nothing in the crawler tells an explicit true from an absent flag.
isVisibleNode(node) == node.visible # "false"

\* ---------------------------------------------------------- normalizeNode
\* a filter that keeps every child entry
FilterVisibleKeepAll(children) == children

RECURSIVE FilterVisible(_)
FilterVisible(children) ==
    IF children = <<>> THEN <<>>
    ELSE IF isVisibleNode(Head(children))
         THEN <<Head(children)>> \o FilterVisible(Tail(children))
         ELSE FilterVisible(Tail(children))

RECURSIVE FilterTruthy(_)
FilterTruthy(ids) ==
    IF ids = <<>> THEN <<>>
    ELSE IF Head(ids) # NoId
         THEN <<Head(ids)>> \o FilterTruthy(Tail(ids))
         ELSE FilterTruthy(Tail(ids))

\* lines 214-218
pick(obj, keys) == [k \in DOMAIN obj \cap keys |-> obj[k]]

\* lines 220-227
omit(obj, keysToOmit) == [k \in DOMAIN obj \ keysToOmit |-> obj[k]]

\* lines 402-456
knownKeys ==
    {"id", "name", "type", "visible", "locked", "opacity", "blendMode", "isMask",
     "maskType", "clipsContent", "layoutMode", "layoutWrap",
     "primaryAxisSizingMode", "counterAxisSizingMode", "primaryAxisAlignItems",
     "counterAxisAlignItems", "primaryAxisAlignContent", "counterAxisAlignContent",
     "itemSpacing", "paddingTop", "paddingRight", "paddingBottom", "paddingLeft",
     "layoutPositioning", "constraints", "absoluteBoundingBox",
     "absoluteRenderBounds", "size", "relativeTransform", "rotation",
     "cornerRadius", "rectangleCornerRadii", "fills", "strokes", "strokeWeight",
     "strokeAlign", "strokeCap", "strokeJoin", "strokeDashes", "effects", "styles",
     "characters", "style", "characterStyleOverrides", "styleOverrideTable",
     "componentId", "componentProperties", "variantProperties",
     "documentationLinks", "reactions", "transitionNodeID", "prototypeStartNodeID",
     "exportSettings"}

\* a copy from which vectorData is not deleted
RawOfKeepingVectorData(doc) == omit(doc, {"vectorPaths", "vectorNetwork"})

\* lines 393-398: a shallow copy of the document, less the three fields deleted
RawOf(doc) == omit(doc, {"vectorPaths", "vectorNetwork", "vectorData"})

\* Array.isArray(doc.children) ? doc.children : []
ChildrenOf(doc) == IF "children" \in DOMAIN doc THEN doc.children ELSE <<>>

\* child ids taken from every stub, whatever its visible flag
ChildIdsOfAnyStub(doc) ==
    FilterTruthy([i \in DOMAIN ChildrenOf(doc) |-> ChildrenOf(doc)[i].id])

\* child ids with every later occurrence of an id removed
RECURSIVE FirstOccurrences(_)
FirstOccurrences(ids) ==
    IF ids = <<>> THEN <<>>
    ELSE LET front == FirstOccurrences(SubSeq(ids, 1, Len(ids) - 1))
             last == ids[Len(ids)]
         IN  IF last \in Range(front) THEN front ELSE Append(front, last)

ChildIdsOfOnce(doc) ==
    LET vis == FilterVisible(ChildrenOf(doc))
    IN  FirstOccurrences(FilterTruthy([i \in DOMAIN vis |-> vis[i].id]))

\* line 400
ChildIdsOf(doc) ==
    LET vis == FilterVisible(ChildrenOf(doc))
    IN  FilterTruthy([i \in DOMAIN vis |-> vis[i].id])

\* lines 391-472, less name, type and tw, which no step of the crawl reads
normalizeNode(doc) ==
    [id |-> doc.id,
     childIds |-> ChildIdsOf(doc),
     known |-> pick(RawOf(doc), knownKeys),
     other |-> omit(RawOf(doc), knownKeys \cup {"children"})]

\* ------------------------------------------------------------- the remote
\* What the server holds under an id: no document, or a document with a
\* visible flag and a list of child stubs (id and visible flag).
MissingDoc(id) == [id |-> id, present |-> FALSE, visible |-> "absent", children |-> <<>>]

\* lines 579-581: entry.document, the attributes of the document served
Document(entry) == [k \in DOMAIN entry \ {"present"} |-> entry[k]]

VisFlags == {"absent", "false"}

\* the highest id mentioned so far (the root, or a stub of a served document)
HighId(r) ==
    LET ids == {rootId} \cup UNION {{c.id : c \in Range(r[n].children)} : n \in DOMAIN r}
    IN  CHOOSE m \in ids : \A x \in ids : x <= m

EdgesUsed(r) == SeqSum([n \in 1..MaxNodes |->
                    IF n \in DOMAIN r THEN Len(r[n].children) ELSE 0])

HiddenOf(doc) ==
    (IF ~doc.present \/ doc.visible = "false" THEN 1 ELSE 0)
    + Cardinality({i \in DOMAIN doc.children : doc.children[i].visible = "false"})

HiddenUsed(r) == SeqSum([n \in 1..MaxNodes |->
                     IF n \in DOMAIN r THEN HiddenOf(r[n]) ELSE 0])

Stubs(hi) == [id : 1..Min(hi + 1, MaxNodes), visible : VisFlags]

\* the child lists a document may turn out to have: up to len stubs of
\* distinct ids, at most hidden of them flagged visible=false
RECURSIVE ChildLists(_, _, _, _)
ChildLists(hi, len, used, hidden) ==
    IF len = 0 THEN {<<>>}
    ELSE {<<>>} \cup
         UNION {{<<s>> \o rest :
                    rest \in ChildLists(Max(hi, s.id), len - 1, used \cup {s.id},
                                        IF s.visible = "false" THEN hidden - 1 ELSE hidden)} :
                   s \in {x \in Stubs(hi) : x.id \notin used
                                             /\ (x.visible = "false" => hidden > 0)}}

DocChoices(r, id) ==
    LET left  == MaxHidden - HiddenUsed(r)
        lists == ChildLists(HighId(r), Min(MaxChildren, MaxEdges - EdgesUsed(r)), {},
                            left)
        docs  == {MissingDoc(id)} \cup
                 {[id |-> id, present |-> TRUE, visible |-> v, children |-> cs] :
                     v \in VisFlags, cs \in lists}
    IN  {d \in docs : HiddenOf(d) <= left}

\* the files the server may turn out to hold once it has answered for ids
RECURSIVE ServeAll(_, _)
ServeAll(r, ids) ==
    IF ids = <<>> THEN {r}
    ELSE IF Head(ids) \in DOMAIN r THEN ServeAll(r, Tail(ids))
    ELSE UNION {ServeAll([k \in DOMAIN r \cup {Head(ids)} |->
                              IF k = Head(ids) THEN d ELSE r[k]], Tail(ids)) :
                   d \in DocChoices(r, Head(ids))}

\* ------------------------------------------------------------------ mapLimit
NoPool == [items |-> <<>>, idx |-> 0, workers |-> <<>>, results |-> {}, st |-> "idle"]

\* a pool that starts one worker per item, whatever the limit
MapLimitCallUnbounded(its, limit) ==
    [items   |-> its,
     idx     |-> Len(its),
     workers |-> [i \in 1..Len(its) |-> [st |-> "run", cur |-> i]],
     results |-> {},
     st      |-> IF its = <<>> THEN "resolved" ELSE "running"]

\* lines 525-537: every worker takes one item before the first await
MapLimitCall(its, limit) ==
    LET n == Min(limit, Len(its))
    IN  [items   |-> its,
         idx     |-> n,
         workers |-> [i \in 1..n |-> [st |-> "run", cur |-> i]],
         results |-> {},
         st      |-> IF n = 0 THEN "resolved" ELSE "running"]

\* a pool that resolves as soon as one worker has returned
SettledOnFirst(p) ==
    IF p.st = "running" /\ \E w \in DOMAIN p.workers : p.workers[w].st = "done"
    THEN [p EXCEPT !.st = "resolved"]
    ELSE p

\* Promise.all(workers): resolved when every worker has returned
Settled(p) ==
    IF p.st = "running" /\ \A w \in DOMAIN p.workers : p.workers[w].st = "done"
    THEN [p EXCEPT !.st = "resolved"]
    ELSE p

\* lines 529-532 after fn resolved: store the result, take the next item or return
WorkerResume(p, w) ==
    LET q == [p EXCEPT !.results = @ \cup {p.workers[w].cur}]
    IN  IF q.idx < Len(q.items)
        THEN [q EXCEPT !.idx = @ + 1, !.workers[w].cur = q.idx + 1]
        ELSE Settled([q EXCEPT !.workers[w].st = "done"])

\* fn rejected: the worker rejects, and Promise.all rejects with the first rejection
WorkerThrow(p, w) ==
    [p EXCEPT !.workers[w].st = "failed",
              !.st = IF @ = "running" THEN "rejected" ELSE @]

InFlight(p) == {w \in DOMAIN p.workers : p.workers[w].st = "run"}

\* ---------------------------------------------------------------- crawlSubtree
\* an enqueue without the test of the seen set
enqueueNoSeenCheck(s, id) ==
    IF id = NoId THEN s
    ELSE IF id \in DOMAIN s.nodeMap THEN s
    ELSE [s EXCEPT !.queued = @ \cup {id}, !.toExpand = Append(@, id)]

\* an enqueue that never records the id in the seen set
enqueueNoAdd(s, id) ==
    IF id = NoId THEN s
    ELSE IF id \in DOMAIN s.nodeMap THEN s
    ELSE IF id \in s.queued THEN s
    ELSE [s EXCEPT !.toExpand = Append(@, id)]

\* an enqueue that puts the id at the head of the queue
enqueueAtFront(s, id) ==
    IF id = NoId THEN s
    ELSE IF id \in DOMAIN s.nodeMap THEN s
    ELSE IF id \in s.queued THEN s
    ELSE [s EXCEPT !.queued = @ \cup {id}, !.toExpand = <<id>> \o @]

\* an enqueue without the test of an empty id
enqueueEmptyIdToo(s, id) ==
    IF id \in DOMAIN s.nodeMap THEN s
    ELSE IF id \in s.queued THEN s
    ELSE [s EXCEPT !.queued = @ \cup {id}, !.toExpand = Append(@, id)]

\* lines 546-552
enqueue(s, id) ==
    IF id = NoId THEN s
    ELSE IF id \in DOMAIN s.nodeMap THEN s
    ELSE IF id \in s.queued THEN s
    ELSE [s EXCEPT !.queued = @ \cup {id}, !.toExpand = Append(@, id)]

\* a loop over the children that stops after the first one
EnqueueFirstOnly(s, ids) ==
    IF ids = <<>> THEN s ELSE enqueue(s, Head(ids))

\* line 588
RECURSIVE EnqueueAll(_, _)
EnqueueAll(s, ids) ==
    IF ids = <<>> THEN s ELSE EnqueueAll(enqueue(s, Head(ids)), Tail(ids))

\* a callback that stores the node and enqueues none of its children
StoreOnly(s, doc) ==
    LET norm == normalizeNode(Document(doc))
    IN  [s EXCEPT !.nodeMap = [k \in DOMAIN @ \cup {norm.id} |->
                                  IF k = norm.id THEN norm ELSE @[k]],
                  !.fetchedCount = @ + 1]

\* lines 584-588: normalize, store, count, enqueue the children
StoreAndExpand(s, doc) ==
    LET norm == normalizeNode(Document(doc))
        t == [s EXCEPT !.nodeMap = [k \in DOMAIN @ \cup {norm.id} |->
                                       IF k = norm.id THEN norm ELSE @[k]],
                       !.fetchedCount = @ + 1]
    IN  EnqueueAll(t, norm.childIds)

\* a callback without the visibility test of line 582
ProcessIdNoVisibleTest(s, id, nodes) ==
    IF ~nodes[id].present THEN s ELSE StoreAndExpand(s, nodes[id])

\* lines 579-588: one id of a fetched batch
ProcessId(s, id, nodes) ==
    IF ~nodes[id].present THEN s
    ELSE IF ~isVisibleNode(nodes[id]) THEN s
    ELSE StoreAndExpand(s, nodes[id])

\* a loop over the batch that ends at the first id without a document
RECURSIVE ProcessBatchUntilMissing(_, _, _)
ProcessBatchUntilMissing(s, ids, nodes) ==
    IF ids = <<>> THEN s
    ELSE IF ~nodes[Head(ids)].present THEN s
    ELSE ProcessBatchUntilMissing(ProcessId(s, Head(ids), nodes), Tail(ids), nodes)

\* lines 578-589
RECURSIVE ProcessBatch(_, _, _)
ProcessBatch(s, ids, nodes) ==
    IF ids = <<>> THEN s
    ELSE ProcessBatch(ProcessId(s, Head(ids), nodes), Tail(ids), nodes)

Frontier == [nodeMap |-> nodeMap, queued |-> queued, toExpand |-> toExpand,
             fetchedCount |-> fetchedCount]

EmptyMap == [k \in {} |-> 0]
NoNode == EmptyMap

EmptyFrontier == [nodeMap |-> EmptyMap, queued |-> {}, toExpand |-> <<>>,
                  fetchedCount |-> 0]

\* lines 561 / 568: pop up to batchSize ids
\* a batch filled while batch.length <= batchSize
TakeBatchOneMore(q, size) == SubSeq(q, 1, Min(size + 1, Len(q)))

TakeBatch(q, size) == SubSeq(q, 1, Min(size, Len(q)))

\* a pop that leaves the last id of the batch in the queue
DropBatchKeepLast(q, size) == SubSeq(q, Min(size, Len(q)), Len(q))

DropBatch(q, size) == SubSeq(q, Min(size, Len(q)) + 1, Len(q))

\* a round of one batch, without the pre-split of lines 565-570
FormBatchesSingle(q, size, count) ==
    [batches |-> <<TakeBatch(q, size)>>, rest |-> DropBatch(q, size)]

\* lines 559-570: the batches of one round and what stays queued
RECURSIVE FormBatches(_, _, _)
FormBatches(q, size, count) ==
    IF q = <<>> \/ count = 0 THEN [batches |-> <<>>, rest |-> q]
    ELSE LET r == FormBatches(DropBatch(q, size), size, count - 1)
         IN  [batches |-> <<TakeBatch(q, size)>> \o r.batches, rest |-> r.rest]

\* a caller that is never resumed when the pool resolves
AfterPoolNeverResumed(p, resumed) ==
    IF pc = "await" /\ p.st = "rejected" THEN "failed" ELSE pc

\* a caller that goes on whether the pool resolved or rejected
AfterPoolIgnoringRejection(p, resumed) ==
    IF pc = "await" /\ p.st \in {"resolved", "rejected"} THEN resumed ELSE pc

\* the caller of mapLimit resumes when Promise.all settles
AfterPool(p, resumed) ==
    IF pc = "await" /\ p.st = "resolved" THEN resumed
    ELSE IF pc = "await" /\ p.st = "rejected" THEN "failed"
    ELSE pc

NoCall == [st |-> "none", attempt |-> 0, requests |-> 0, waits |-> <<>>,
           statuses |-> <<>>, result |-> 0]

Round == IF sent = <<>> THEN 0 ELSE sent[Len(sent)].round

\* -------------------------------------------------------------------- actions
\* crawlSubtree is called: lines 542-557
CrawlInit ==
    /\ rootId \in {NoId, 1}
    /\ batchSize \in 1..MaxBatchSize
    /\ concurrency \in 1..MaxConcurrency
    /\ remote = EmptyMap
    /\ LET s == enqueue(EmptyFrontier, rootId)
       IN  /\ nodeMap = s.nodeMap
           /\ queued = s.queued
           /\ toExpand = s.toExpand
           /\ fetchedCount = s.fetchedCount
    /\ requestCount = 0
    /\ pool = NoPool
    /\ calls = EmptyMap
    /\ call = NoCall
    /\ pc = "loop"
    /\ error = 0
    /\ sent = <<>>
    /\ started = <<>>
    /\ thrown = <<>>
    /\ rawNode = NoNode
    /\ normalized = NoNode

\* lines 559-575: one round is formed and handed to mapLimit; every worker
\* takes a batch and runs its callback up to the fetch
Dispatch ==
    /\ pc = "loop"
    /\ toExpand # <<>>
    /\ LET f == FormBatches(toExpand, batchSize, concurrency)
           p == MapLimitCall(f.batches, concurrency)
       IN  /\ toExpand' = f.rest
           /\ pool' = p
           /\ calls' = [w \in DOMAIN p.workers |-> [st |-> "fetch", attempt |-> 0]]
           /\ requestCount' = requestCount + Len(p.workers)
           /\ sent' = sent \o [w \in DOMAIN p.workers |->
                                  [round |-> Round + 1, ids |-> p.items[p.workers[w].cur]]]
           /\ started' = [w \in DOMAIN p.workers |-> p.workers[w].cur]
           /\ pc' = "await"
    /\ UNCHANGED <<rootId, batchSize, concurrency, remote, nodeMap, queued,
                   fetchedCount, call, error, thrown, rawNode, normalized>>

\* line 559 false, line 593
Return ==
    /\ pc = "loop"
    /\ toExpand = <<>>
    /\ pc' = "returned"
    /\ UNCHANGED <<rootId, batchSize, concurrency, remote, nodeMap, toExpand, queued,
                   fetchedCount, requestCount, pool, calls, call, error, sent, started,
                   thrown, rawNode, normalized>>

\* lines 168, 575-590, 529-532: an OK response; the callback stores the batch's
\* documents and enqueues their children, then the worker goes on
RespondOk(w) ==
    /\ w \in DOMAIN calls
    /\ calls[w].st = "fetch"
    /\ LET ids == pool.items[pool.workers[w].cur]
           p == WorkerResume(pool, w)
       IN  /\ \E r \in ServeAll(remote, ids) :
                /\ remote' = r
                /\ LET s == ProcessBatch(Frontier, ids, r)
                   IN  /\ nodeMap' = s.nodeMap
                       /\ queued' = s.queued
                       /\ toExpand' = s.toExpand
                       /\ fetchedCount' = s.fetchedCount
           /\ pool' = p
           /\ IF p.workers[w].st = "run"
              THEN /\ calls' = [calls EXCEPT ![w] = [st |-> "fetch", attempt |-> 0]]
                   /\ requestCount' = requestCount + 1
                   /\ sent' = Append(sent, [round |-> Round,
                                            ids |-> p.items[p.workers[w].cur]])
                   /\ started' = Append(started, p.workers[w].cur)
              ELSE /\ calls' = [v \in DOMAIN calls \ {w} |-> calls[v]]
                   /\ UNCHANGED <<requestCount, sent, started>>
           /\ pc' = AfterPool(p, "loop")
    /\ UNCHANGED <<rootId, batchSize, concurrency, call, error, thrown, rawNode,
                   normalized>>

\* lines 172-180: a retryable status with attempts left; the call goes to sleep
RespondRetry(w, status) ==
    /\ w \in DOMAIN calls
    /\ calls[w].st = "fetch"
    /\ ~ResOk(status)
    /\ WillRetry(calls[w].attempt, status)
    /\ calls[w].attempt < MaxTransient
    /\ calls' = [calls EXCEPT ![w] = [st |-> "sleep", attempt |-> @.attempt + 1]]
    /\ UNCHANGED <<rootId, batchSize, concurrency, remote, nodeMap, toExpand, queued,
                   fetchedCount, requestCount, pool, call, pc, error, sent, started,
                   thrown, rawNode, normalized>>

\* line 179 is over, line 162: the next request
Wake(w) ==
    /\ w \in DOMAIN calls
    /\ calls[w].st = "sleep"
    /\ calls' = [calls EXCEPT ![w].st = "fetch"]
    /\ UNCHANGED <<rootId, batchSize, concurrency, remote, nodeMap, toExpand, queued,
                   fetchedCount, requestCount, pool, call, pc, error, sent, started,
                   thrown, rawNode, normalized>>

\* line 183: the call throws; the unit and its worker reject, and Promise.all
\* rejects if this is its first rejection
RespondThrow(w, status) ==
    /\ w \in DOMAIN calls
    /\ calls[w].st = "fetch"
    /\ ~ResOk(status)
    /\ ~WillRetry(calls[w].attempt, status)
    /\ LET p == WorkerThrow(pool, w)
       IN  /\ pool' = p
           /\ pc' = AfterPool(p, "loop")
           /\ error' = IF pc = "await" THEN status ELSE error
    /\ calls' = [v \in DOMAIN calls \ {w} |-> calls[v]]
    /\ thrown' = Append(thrown, status)
    /\ UNCHANGED <<rootId, batchSize, concurrency, remote, nodeMap, toExpand, queued,
                   fetchedCount, requestCount, call, sent, started, rawNode,
                   normalized>>

\* the statuses the server answers a batch request with, besides OK
CrawlStatuses == {404, 429, 503}

\* ------------------------------------------------- mapLimit called on its own
\* with any list of items and a unit of work that resolves or rejects
Items(n) == [i \in 1..n |-> <<i>>]

PoolInit ==
    /\ rootId = NoId
    /\ batchSize = 1
    /\ concurrency \in 1..MaxConcurrency
    /\ remote = EmptyMap
    /\ nodeMap = EmptyMap
    /\ queued = {}
    /\ toExpand = <<>>
    /\ fetchedCount = 0
    /\ requestCount = 0
    /\ pool = NoPool
    /\ calls = EmptyMap
    /\ call = NoCall
    /\ pc = "call"
    /\ error = 0
    /\ sent = <<>>
    /\ started = <<>>
    /\ thrown = <<>>
    /\ rawNode = NoNode
    /\ normalized = NoNode

\* lines 524-537
PoolCall(n) ==
    /\ pc = "call"
    /\ LET p == MapLimitCall(Items(n), concurrency)
       IN  /\ pool' = p
           /\ started' = [w \in DOMAIN p.workers |-> p.workers[w].cur]
           /\ pc' = IF p.st = "resolved" THEN "returned" ELSE "await"
    /\ UNCHANGED <<rootId, batchSize, concurrency, remote, nodeMap, toExpand, queued,
                   fetchedCount, requestCount, calls, call, error, sent, thrown,
                   rawNode, normalized>>

\* line 531: fn resolved
UnitResolve(w) ==
    /\ w \in InFlight(pool)
    /\ w \notin DOMAIN calls
    /\ LET p == WorkerResume(pool, w)
       IN  /\ pool' = p
           /\ started' = IF p.workers[w].st = "run"
                         THEN Append(started, p.workers[w].cur) ELSE started
           /\ pc' = AfterPool(p, "returned")
    /\ UNCHANGED <<rootId, batchSize, concurrency, remote, nodeMap, toExpand, queued,
                   fetchedCount, requestCount, calls, call, error, sent, thrown,
                   rawNode, normalized>>

\* line 531: fn rejected, with an error naming its item
UnitReject(w) ==
    /\ w \in InFlight(pool)
    /\ w \notin DOMAIN calls
    /\ LET p == WorkerThrow(pool, w)
       IN  /\ pool' = p
           /\ pc' = AfterPool(p, "returned")
           /\ error' = IF pc = "await" THEN pool.workers[w].cur ELSE error
    /\ thrown' = Append(thrown, pool.workers[w].cur)
    /\ UNCHANGED <<rootId, batchSize, concurrency, remote, nodeMap, toExpand, queued,
                   fetchedCount, requestCount, calls, call, sent, started, rawNode,
                   normalized>>

\* -------------------------------------------- figmaFetchJson called on its own
base == 500
jitterRange == 250

\* a backoff that grows by base each time instead of doubling
waitMsLinear(attempt, jitter) == base * (attempt + 1) + jitter

\* lines 173-176
waitMs(attempt, jitter) == base * 2 ^ attempt + jitter

\* Math.floor(Math.random() * 250) is some integer of 0..249
Jitters == {0, jitterRange - 1}

Statuses == {200, 404, 428, 429, 430, 499, 500, 599, 600}

\* lines 157-162: the first request is out
FetchInit ==
    /\ rootId = NoId
    /\ batchSize = 1
    /\ concurrency = 1
    /\ remote = EmptyMap
    /\ nodeMap = EmptyMap
    /\ queued = {}
    /\ toExpand = <<>>
    /\ fetchedCount = 0
    /\ requestCount = 0
    /\ pool = NoPool
    /\ calls = EmptyMap
    /\ call = [NoCall EXCEPT !.st = "fetch", !.requests = 1]
    /\ pc = "fetch"
    /\ error = 0
    /\ sent = <<>>
    /\ started = <<>>
    /\ thrown = <<>>
    /\ rawNode = NoNode
    /\ normalized = NoNode

\* the body kept from the first response is returned
FetchOkFirstBody(status) ==
    /\ call.st = "fetch"
    /\ ResOk(status)
    /\ call' = [call EXCEPT !.st = "returned", !.statuses = Append(@, status),
                            !.result = 1]
    /\ pc' = "returned"
    /\ UNCHANGED <<rootId, batchSize, concurrency, remote, nodeMap, toExpand, queued,
                   fetchedCount, requestCount, pool, calls, error, sent, started,
                   thrown, rawNode, normalized>>

\* line 168: the body of this response is returned (a body is named by the
\* number of the request it answers)
FetchOk(status) ==
    /\ call.st = "fetch"
    /\ ResOk(status)
    /\ call' = [call EXCEPT !.st = "returned", !.statuses = Append(@, status),
                            !.result = call.requests]
    /\ pc' = "returned"
    /\ UNCHANGED <<rootId, batchSize, concurrency, remote, nodeMap, toExpand, queued,
                   fetchedCount, requestCount, pool, calls, error, sent, started,
                   thrown, rawNode, normalized>>

\* lines 172-179
FetchRetry(status, jitter) ==
    /\ call.st = "fetch"
    /\ ~ResOk(status)
    /\ WillRetry(call.attempt, status)
    /\ call' = [call EXCEPT !.st = "sleep", !.statuses = Append(@, status),
                            !.waits = Append(@, waitMs(call.attempt, jitter)),
                            !.attempt = @ + 1]
    /\ UNCHANGED <<rootId, batchSize, concurrency, remote, nodeMap, toExpand, queued,
                   fetchedCount, requestCount, pool, calls, pc, error, sent, started,
                   thrown, rawNode, normalized>>

\* lines 179-180, 162
FetchWake ==
    /\ call.st = "sleep"
    /\ call' = [call EXCEPT !.st = "fetch", !.requests = @ + 1]
    /\ UNCHANGED <<rootId, batchSize, concurrency, remote, nodeMap, toExpand, queued,
                   fetchedCount, requestCount, pool, calls, pc, error, sent, started,
                   thrown, rawNode, normalized>>

\* line 183
FetchThrow(status) ==
    /\ call.st = "fetch"
    /\ ~ResOk(status)
    /\ ~WillRetry(call.attempt, status)
    /\ call' = [call EXCEPT !.st = "thrown", !.statuses = Append(@, status)]
    /\ pc' = "failed"
    /\ error' = status
    /\ thrown' = Append(thrown, status)
    /\ UNCHANGED <<rootId, batchSize, concurrency, remote, nodeMap, toExpand, queued,
                   fetchedCount, requestCount, pool, calls, sent, started, rawNode,
                   normalized>>

\* ---------------------------------------------- normalizeNode called on its own
\* A raw node is a mapping from attribute names to values.  The ones drawn
\* here always have an id; each of the other attributes is present or not.
\* The geometry attributes, when present, hold a path payload.
GeometryPayload == "M 0 0 L 10 10 Z"
PlainValue == "v"

GeometryFields == {"vectorPaths", "vectorNetwork", "vectorData", "fillGeometry"}
OptionalAttrs == GeometryFields \cup {"children", "fills", "pluginData"}

ListedStubs == [id : {NoId, 2, 3}, visible : VisFlags]
StubLists == UNION {[1..n -> ListedStubs] : n \in 0..MaxListed}

RawNodeWith(attrs, ch) ==
    [k \in attrs \cup {"id"} |->
        IF k = "id" THEN 1
        ELSE IF k = "children" THEN ch
        ELSE IF k \in GeometryFields THEN GeometryPayload
        ELSE PlainValue]

RawNodes == {RawNodeWith(attrs, ch) : attrs \in SUBSET OptionalAttrs, ch \in StubLists}

NormalizeInit ==
    /\ rootId = NoId
    /\ batchSize = 1
    /\ concurrency = 1
    /\ remote = EmptyMap
    /\ nodeMap = EmptyMap
    /\ queued = {}
    /\ toExpand = <<>>
    /\ fetchedCount = 0
    /\ requestCount = 0
    /\ pool = NoPool
    /\ calls = EmptyMap
    /\ call = NoCall
    /\ pc = "normalize"
    /\ error = 0
    /\ sent = <<>>
    /\ started = <<>>
    /\ thrown = <<>>
    /\ rawNode \in RawNodes
    /\ normalized = NoNode

\* lines 391-472: the deletes of lines 396-398 act on the copy of line 393,
\* the caller's document stays as it was
Normalize ==
    /\ pc = "normalize"
    /\ normalized' = normalizeNode(rawNode)
    /\ rawNode' = rawNode
    /\ pc' = "normalized"
    /\ UNCHANGED <<rootId, batchSize, concurrency, remote, nodeMap, toExpand, queued,
                   fetchedCount, requestCount, pool, calls, call, error, sent, started,
                   thrown>>

\* ------------------------------------------------------------ specification
Init == CrawlInit \/ PoolInit \/ FetchInit \/ NormalizeInit

Next ==
    \/ Dispatch
    \/ Return
    \/ \E w \in 1..MaxConcurrency : RespondOk(w)
    \/ \E w \in 1..MaxConcurrency, s \in CrawlStatuses : RespondRetry(w, s)
    \/ \E w \in 1..MaxConcurrency : Wake(w)
    \/ \E w \in 1..MaxConcurrency, s \in CrawlStatuses : RespondThrow(w, s)
    \/ \E n \in 0..MaxItems : PoolCall(n)
    \/ \E w \in 1..MaxConcurrency : UnitResolve(w)
    \/ \E w \in 1..MaxConcurrency : UnitReject(w)
    \/ \E s \in Statuses : FetchOk(s)
    \/ \E s \in Statuses, j \in Jitters : FetchRetry(s, j)
    \/ FetchWake
    \/ \E s \in Statuses : FetchThrow(s)
    \/ Normalize

Spec == Init /\ [][Next]_vars

\* One crawl, in which every fetch settles.  The event loop runs every
\* callback that is due, so the continuation of the loop (Dispatch, Return)
\* and the end of a sleep (Wake) are not put off for ever.  A call does not
\* await its response for ever either: the failing response is possible
\* exactly while a call awaits one, so its weak fairness says that the call
\* is answered, by this response or by another one that disables it.
CrawlNext ==
    \/ Dispatch
    \/ Return
    \/ \E w \in 1..MaxConcurrency : RespondOk(w)
    \/ \E w \in 1..MaxConcurrency, s \in CrawlStatuses : RespondRetry(w, s)
    \/ \E w \in 1..MaxConcurrency : Wake(w)
    \/ \E w \in 1..MaxConcurrency, s \in CrawlStatuses : RespondThrow(w, s)

CrawlSpec ==
    /\ CrawlInit
    /\ [][CrawlNext]_vars
    /\ WF_vars(Dispatch)
    /\ WF_vars(Return)
    /\ \A w \in 1..MaxConcurrency :
          /\ WF_vars(Wake(w))
          /\ WF_vars(\E s \in CrawlStatuses : RespondThrow(w, s))

\* ------------------------------------------------------------------- claims
CountIn(seq, x) == Cardinality({i \in DOMAIN seq : seq[i] = x})

\* the number of dispatched batches an id has been placed in
Dispatches(id) == SeqSum([i \in DOMAIN sent |-> CountIn(sent[i].ids, id)])

StubIds(doc) == {doc.children[i].id : i \in DOMAIN doc.children}

\* the fetched documents with visible=false, and those stored-as-visible
FetchedHidden == {n \in DOMAIN remote : remote[n].present /\ remote[n].visible = "false"}
FetchedVisible == {n \in DOMAIN remote : remote[n].present /\ remote[n].visible # "false"}

\* a fetched visible document lists c among its children with a flag that is not false
ListedVisibly(c) ==
    \E p \in FetchedVisible : \E i \in DOMAIN remote[p].children :
        remote[p].children[i].id = c /\ remote[p].children[i].visible # "false"

\* C1: in one crawl every id is appended to the pending queue at most once:
\* it is in at most one dispatched batch, and while it waits in the queue it
\* is there once and in no batch.
C1_NoDuplicateFetch ==
    \A id \in NodeIds : Dispatches(id) + CountIn(toExpand, id) <= 1

\* a finished crawl in which two stored nodes list the same child, fetched once
C1_Witness ==
    /\ pc = "returned"
    /\ \E a, b \in DOMAIN nodeMap :
          /\ a # b
          /\ \E x \in Range(nodeMap[a].childIds) \cap Range(nodeMap[b].childIds) :
                Dispatches(x) = 1

\* two stored parents fetched by different batches of one round, and a child of both
SameRoundParents(a, b, x) ==
    /\ a \in DOMAIN nodeMap /\ b \in DOMAIN nodeMap /\ a # b
    /\ x \in Range(nodeMap[a].childIds) \cap Range(nodeMap[b].childIds)
    /\ \E i, j \in DOMAIN sent :
          /\ i # j
          /\ sent[i].round = sent[j].round
          /\ a \in Range(sent[i].ids)
          /\ b \in Range(sent[j].ids)

\* C2: a child listed by two visible parents that different batches of the
\* same round fetched is enqueued exactly once, whichever callback ran
\* first, and a crawl that returns has fetched it exactly once.
C2_DedupConcurrentDiscovery ==
    \A a, b \in DOMAIN nodeMap :
        \A x \in Range(nodeMap[a].childIds) \cap Range(nodeMap[b].childIds) :
            SameRoundParents(a, b, x) =>
                /\ Dispatches(x) + CountIn(toExpand, x) = 1
                /\ pc = "returned" => Dispatches(x) = 1

\* a finished crawl where the common child was first discovered by that round
C2_Witness ==
    /\ pc = "returned"
    /\ \E a, b, x \in NodeIds :
          /\ SameRoundParents(a, b, x)
          /\ \E i, k \in DOMAIN sent :
                /\ a \in Range(sent[i].ids)
                /\ x \in Range(sent[k].ids)
                /\ sent[k].round > sent[i].round

\* C3 as stated: after a successful crawl every child id of a stored node is
\* itself a key of the ResultMap.
C3_NoDanglingChild ==
    pc = "returned" =>
        \A n \in DOMAIN nodeMap : Range(nodeMap[n].childIds) \subseteq DOMAIN nodeMap

\* C3 amended: after a successful crawl every child id of a stored node has
\* been fetched exactly once, and it is a key of the ResultMap exactly when
\* the fetch returned a document for it whose visible flag is not false.
C3_ChildrenResolved ==
    pc = "returned" =>
        \A n \in DOMAIN nodeMap : \A c \in Range(nodeMap[n].childIds) :
            /\ Dispatches(c) = 1
            /\ c \in DOMAIN remote
            /\ c \in DOMAIN nodeMap <=> c \in FetchedVisible

\* a finished crawl with a stored node that has a stored child and a dropped one
C3_Witness ==
    /\ pc = "returned"
    /\ \E n \in DOMAIN nodeMap : \E c, d \in Range(nodeMap[n].childIds) :
          c \notin DOMAIN nodeMap /\ d \in DOMAIN nodeMap /\ d # n

\* C4 as stated: no child of a node fetched with visible=false is ever placed
\* in a dispatched batch (left aside the root, which every crawl fetches, and
\* a node that lists itself).
C4_HiddenChildrenNeverFetched ==
    \A n \in FetchedHidden : \A c \in StubIds(remote[n]) \ {rootId, n} : Dispatches(c) = 0

\* C4 amended: a child of a node fetched with visible=false is never seen or
\* fetched on that node's account: it is seen only if it is the root or if a
\* fetched visible document lists it with a flag that is not false.
C4_HiddenChildrenOnlyViaVisible ==
    \A n \in FetchedHidden : \A c \in StubIds(remote[n]) :
        (c \in queued \/ Dispatches(c) > 0 \/ CountIn(toExpand, c) > 0) =>
            (c = rootId \/ ListedVisibly(c))

\* a finished crawl with a hidden node of which one child was never seen and
\* another was fetched through a visible parent
C4_Witness ==
    /\ pc = "returned"
    /\ \E n \in FetchedHidden : \E c, d \in StubIds(remote[n]) :
          /\ c \notin queued /\ Dispatches(c) = 0
          /\ d # rootId /\ Dispatches(d) = 1

\* C5: every key of the ResultMap was fetched, and the fetch returned for it
\* a document whose visible flag is not false; a node fetched with
\* visible=false is never a key.
C5_VisibleOnlyResultMap ==
    /\ \A k \in DOMAIN nodeMap :
          /\ Dispatches(k) >= 1
          /\ k \in DOMAIN remote
          /\ remote[k].present
          /\ remote[k].visible # "false"
          /\ nodeMap[k].id = k
    /\ \A n \in FetchedHidden : n \notin DOMAIN nodeMap

\* a node was fetched hidden and dropped, another has no flag and is stored
C5_Witness ==
    /\ FetchedHidden # {}
    /\ \E k \in DOMAIN nodeMap : remote[k].visible = "absent"

\* C6: never more than min(limit, number of items) units of a pool call are in
\* flight, and the fetches of a crawl (waiting for a response or sleeping
\* before a retry) are units in flight, at most `concurrency` of them.
C6_BoundedParallelism ==
    /\ Cardinality(InFlight(pool)) <= Min(concurrency, Len(pool.items))
    /\ DOMAIN calls \subseteq InFlight(pool)
    /\ Cardinality(DOMAIN calls) <= concurrency

\* a crawl with as many fetches in flight as allowed, one of them asleep
C6_Witness ==
    /\ concurrency > 1
    /\ Cardinality(DOMAIN calls) = concurrency
    /\ \E w \in DOMAIN calls : calls[w].st = "sleep"

\* C7 as stated: when the pool call has failed, no started unit is in flight.
C7_FailsOnlyWhenAllSettled ==
    (pc = "failed" /\ pool.st = "rejected") => InFlight(pool) = {}

\* C8 as stated: when the pool call is over, fn has been invoked exactly once
\* for every item, in list order, and no unit is still in flight.
C8_PoolCoverage ==
    /\ \A i, j \in DOMAIN started : i < j => started[i] < started[j]
    /\ (pc \in {"returned", "failed"} /\ pool.st \in {"resolved", "rejected"}) =>
          /\ \A k \in DOMAIN pool.items : CountIn(started, k) = 1
          /\ InFlight(pool) = {}

\* C9: once a unit of work has thrown, the caller has failed with the first
\* error thrown and stays failed, and no step removes or changes an entry of
\* the ResultMap.
C9_AbortKeepsStoredNodes ==
    [][ /\ thrown' # <<>> => (pc' = "failed" /\ error' = thrown'[1])
        /\ \A k \in DOMAIN nodeMap : k \in DOMAIN nodeMap' /\ nodeMap'[k] = nodeMap[k]
      ]_vars

\* a crawl that failed on a 404 after it had stored nodes
C9_Witness ==
    /\ pc = "failed"
    /\ thrown # <<>>
    /\ thrown[1] = 404
    /\ DOMAIN nodeMap # {}

\* the statuses the retry policy names
Retryable(status) == status = 429 \/ status \in 500..599

\* C10: only a response with status 429 or 500..599 is followed by a wait and
\* a retry, and (with attempts left) every such response is; any other
\* non-OK status fails the call on the spot, with no wait and no further
\* request: a first response of that kind fails it after one request.
C10_NonRetryableFailsAtOnce ==
    LET h == call.statuses
        n == Len(h)
    IN  /\ \A i \in 1..(n - 1) : Retryable(h[i])
        /\ (n >= 1 /\ ~ResOk(h[n]) /\ ~Retryable(h[n])) =>
              /\ call.st = "thrown"
              /\ error = h[n]
              /\ call.requests = n
              /\ Len(call.waits) = n - 1
        /\ (n >= 1 /\ Retryable(h[n]) /\ n < maxAttempts) =>
              /\ call.st \in {"sleep", "fetch"}
              /\ Len(call.waits) = n

\* a call that failed on a first response of 404: one request, no wait
C10_Witness ==
    /\ call.st = "thrown"
    /\ call.statuses = <<404>>
    /\ call.requests = 1
    /\ call.waits = <<>>

\* every response the call has received so far had a retryable status
AllRetryable(statuses) == \A i \in DOMAIN statuses : Retryable(statuses[i])

\* C11: one call of figmaFetchJson issues at most 6 requests and waits at
\* most 5 times; when every response is retryable it fails on the 6th
\* response, after exactly 6 requests and exactly 5 waits, and a failure is
\* never preceded by a wait for the response that raised it.
C11_RetryCap ==
    /\ call.requests <= 6
    /\ Len(call.waits) <= 5
    /\ call.st = "thrown" =>
          /\ Len(call.statuses) = call.requests
          /\ Len(call.waits) = call.requests - 1
          /\ AllRetryable(call.statuses) =>
                (call.requests = 6 /\ Len(call.waits) = 5)

\* a call that failed after six retryable responses, a 429 and a 5xx among them
C11_Witness ==
    /\ call.st = "thrown"
    /\ AllRetryable(call.statuses)
    /\ Len(call.statuses) = 6
    /\ call.statuses[1] = 429
    /\ call.statuses[6] = 599

\* C12: a call returns only on an OK response; when the first k responses
\* (k of 0..5) were retryable and response k+1 is OK, it returns the body of
\* response k+1 after exactly k+1 requests and exactly k waits.
C12_Recovery ==
    call.st = "returned" =>
        LET n == Len(call.statuses)
        IN  /\ n \in 1..6
            /\ call.statuses[n] \in 200..299
            /\ AllRetryable(SubSeq(call.statuses, 1, n - 1)) =>
                  /\ call.result = n
                  /\ call.requests = n
                  /\ Len(call.waits) = n - 1

\* a call that returned on its sixth response, after five retryable ones
C12_Witness ==
    /\ call.st = "returned"
    /\ Len(call.statuses) = 6
    /\ call.result = 6
    /\ Len(call.waits) = 5

\* C13: the wait before retry a (a = 0..4) is 500 * 2^a plus a jitter of
\* 0..249, so it is at least 500 * 2^a, and the waits of one call are
\* strictly increasing.
C13_BackoffGrowth ==
    /\ \A i \in DOMAIN call.waits :
          /\ i - 1 \in 0..4
          /\ call.waits[i] >= 500 * 2 ^ (i - 1)
          /\ call.waits[i] <= 500 * 2 ^ (i - 1) + 249
    /\ \A i, j \in DOMAIN call.waits : i < j => call.waits[i] < call.waits[j]

\* five waits of which the first drew the largest jitter and the second the smallest
C13_Witness ==
    /\ Len(call.waits) = 5
    /\ call.waits[1] = 749
    /\ call.waits[2] = 1000
    /\ call.waits[5] = 8249

\* The scenario of C14, with the ids numbered in order of appearance: root 1
\* lists A = 2, whose document is visible and childless, and then B = 3,
\* which is invisible: its entry in the root's children carries
\* visible=false, or its own document does and lists C = 4.
BHiddenInList == remote[1].children[2].visible = "false"

BHiddenDocument ==
    /\ 3 \in DOMAIN remote
    /\ remote[3].present
    /\ remote[3].visible = "false"
    /\ Len(remote[3].children) = 1
    /\ remote[3].children[1].id = 4

RootWithAAndHiddenB ==
    /\ rootId = 1
    /\ batchSize >= 2
    /\ 1 \in DOMAIN remote
    /\ remote[1].present
    /\ remote[1].visible # "false"
    /\ Len(remote[1].children) = 2
    /\ remote[1].children[1] = [id |-> 2, visible |-> "absent"]
    /\ remote[1].children[2].id = 3
    /\ 2 \in DOMAIN remote
    /\ remote[2].present
    /\ remote[2].visible # "false"
    /\ remote[2].children = <<>>
    /\ BHiddenInList \/ BHiddenDocument

\* C14 as stated: in the scenario a crawl that returns has stored exactly
\* the root and A, has never fetched C, and has issued exactly two batches:
\* the root's, then one holding A and B.
C14_SecondBatchHoldsAAndB ==
    (pc = "returned" /\ RootWithAAndHiddenB) =>
        /\ DOMAIN nodeMap = {1, 2}
        /\ Dispatches(4) = 0
        /\ Len(sent) = 2
        /\ sent[1].ids = <<1>>
        /\ sent[2].ids = <<2, 3>>

\* C14 amended: in the scenario a crawl fails only on a failed fetch, and one
\* that returns has stored exactly the root and A, has never seen or fetched
\* C, and has issued exactly two batches: the root's, then one that holds A
\* alone when B's entry in the root's children carries visible=false (B is
\* then never fetched), and A and B when only B's own document carries it.
C14_SecondBatchHoldsAAndUnflaggedB ==
    /\ (pc = "failed" /\ rootId = 1) => thrown # <<>>
    /\ (pc = "returned" /\ RootWithAAndHiddenB) =>
          /\ DOMAIN nodeMap = {1, 2}
          /\ Dispatches(4) = 0
          /\ 4 \notin queued
          /\ Len(sent) = 2
          /\ sent[1].ids = <<1>>
          /\ sent[2].ids = IF BHiddenInList THEN <<2>> ELSE <<2, 3>>
          /\ BHiddenInList => 3 \notin DOMAIN remote

\* the scenario crawled to its end with B flagged in the root's children
C14_Witness ==
    /\ pc = "returned"
    /\ RootWithAAndHiddenB
    /\ BHiddenInList
    /\ sent[2].ids = <<2>>

\* the scenario crawled to its end with only B's own document flagged
C14_WitnessUnflaggedStub ==
    /\ pc = "returned"
    /\ RootWithAAndHiddenB
    /\ ~BHiddenInList
    /\ BHiddenDocument
    /\ sent[2].ids = <<2, 3>>

\* the mapping holds the path payload under some key (an id is a number and
\* children a list, neither is a payload)
HoldsPayload(mapping) ==
    \E k \in DOMAIN mapping \ {"id", "children"} : mapping[k] = GeometryPayload

\* C15 as stated: when normalizeNode has returned for a raw node that carries
\* a vector geometry payload, neither known nor other holds that payload
\* under any key, and the raw node is as it was handed in.
C15_NoGeometryTrace ==
    [][ (pc = "normalize" /\ pc' = "normalized"
            /\ HoldsPayload(rawNode)) =>
          /\ ~HoldsPayload(normalized'.known)
          /\ ~HoldsPayload(normalized'.other)
          /\ rawNode' = rawNode
      ]_vars

\* the rounds of the batches that units in flight are fetching
RoundsInFlight ==
    {sent[i].round : i \in {j \in DOMAIN sent :
        \E w \in DOMAIN calls : sent[j].ids = pool.items[pool.workers[w].cur]}}

\* C16: whenever the crawl loop stands before forming a round, no unit of
\* the previous round's pool call is in flight (all have settled), and the
\* fetches in flight at any time all belong to the latest round dispatched.
C16_RoundBarrier ==
    /\ pc = "loop" =>
          /\ InFlight(pool) = {}
          /\ DOMAIN calls = {}
          /\ pool.st \in {"idle", "resolved"}
    /\ DOMAIN calls # {} => RoundsInFlight = {Round}

\* the third round is in flight, after a second round of two batches
C16_Witness ==
    /\ pc = "await"
    /\ Round = 3
    /\ DOMAIN calls # {}
    /\ \E i, j \in DOMAIN sent : i # j /\ sent[i].round = 2 /\ sent[j].round = 2

CeilDiv(a, b) == (a + b - 1) \div b

\* the batches of the latest round, in the order they were handed to the pool
RoundBatches(history) ==
    LET last == history[Len(history)].round
        idxs == {i \in DOMAIN history : history[i].round = last}
        first == CHOOSE i \in idxs : \A j \in idxs : i <= j
    IN  [k \in 1..Cardinality(idxs) |-> history[first + k - 1].ids]

\* C17: a step that forms a round finds q > 0 pending ids and dispatches
\* exactly the consecutive chunks of batchSize ids of the first
\* min(q, batchSize * concurrency) queued ids, in queue order: the round has
\* min(concurrency, ceil(q / batchSize)) batches, every batch but the last is
\* full, and the ids behind them stay queued in their order.
C17_RoundFormation ==
    [][ (pc = "loop" /\ pc' = "await") =>
          LET q == Len(toExpand)
              m == Min(q, batchSize * concurrency)
              formed == RoundBatches(sent')
              n == Len(formed)
          IN  /\ q > 0
              /\ Len(sent') = Len(sent) + n
              /\ n = Min(concurrency, CeilDiv(q, batchSize))
              /\ \A i \in 1..n :
                    formed[i] = SubSeq(toExpand, (i - 1) * batchSize + 1,
                                       Min(i * batchSize, m))
              /\ \A i \in 1..(n - 1) : Len(formed[i]) = batchSize
              /\ pool'.items = formed
              /\ toExpand' = SubSeq(toExpand, m + 1, q)
      ]_vars

\* a round of two batches has just been dispatched
C17_Witness ==
    /\ pc = "await"
    /\ Round >= 2
    /\ Len(RoundBatches(sent)) = 2
    /\ pool.results = {}
    /\ DOMAIN remote = {1}

\* a round has just been dispatched and left an id in the queue
C17_WitnessRestQueued ==
    /\ pc = "await"
    /\ Round >= 2
    /\ concurrency = 1
    /\ pool.results = {}
    /\ toExpand # <<>>
    /\ DOMAIN remote = {1}

\* C18: every batch handed to fetchNodes holds at least one id and at most
\* batchSize ids, and no id twice.
C18_BatchBounds ==
    \A i \in DOMAIN sent :
        /\ Len(sent[i].ids) >= 1
        /\ Len(sent[i].ids) <= batchSize
        /\ \A j, k \in DOMAIN sent[i].ids : j # k => sent[i].ids[j] # sent[i].ids[k]

\* a full batch of two ids was sent, and so was a batch with room left
C18_Witness ==
    /\ batchSize = 2
    /\ concurrency = 2
    /\ \E i, j \in DOMAIN sent : Len(sent[i].ids) = 2 /\ Len(sent[j].ids) = 1

\* C19: a crawl whose fetches all settle eventually returns or fails, whatever
\* the remote graph (cycles and shared children included); and when it has
\* returned the pending queue is empty and no unit or fetch is in flight.
C19_Termination ==
    /\ <>(pc \in {"returned", "failed"})
    /\ [](pc = "returned" =>
            /\ toExpand = <<>>
            /\ InFlight(pool) = {}
            /\ DOMAIN calls = {})

\* a crawl returned from a graph with a cycle and a child shared by two parents
C19_Witness ==
    /\ pc = "returned"
    /\ \E a, b \in DOMAIN nodeMap :
          /\ a # b
          /\ a \in Range(nodeMap[b].childIds)
          /\ b \in Range(nodeMap[a].childIds)
    /\ \E a, b \in DOMAIN nodeMap, x \in NodeIds :
          /\ a # b /\ x \notin {a, b}
          /\ x \in Range(nodeMap[a].childIds) \cap Range(nodeMap[b].childIds)

\* the step changes the seen set, the pending queue or the ResultMap
FrontierWritten ==
    nodeMap' # nodeMap \/ queued' # queued \/ toExpand' # toExpand

\* the step is the callback of worker w's unit, run on the OK response to its fetch
UnitCallback(w) ==
    /\ w \in DOMAIN calls
    /\ calls[w].st = "fetch"
    /\ pool.workers[w].cur \notin pool.results
    /\ pool'.results = pool.results \cup {pool.workers[w].cur}

IsPrefix(a, b) == Len(a) <= Len(b) /\ SubSeq(b, 1, Len(a)) = a
IsSuffix(a, b) == Len(a) <= Len(b) /\ SubSeq(b, Len(b) - Len(a) + 1, Len(b)) = a

\* C20 as stated: the seen set, the pending queue and the ResultMap are
\* written only by steps of the coordinating loop, never by a step of a unit
\* run by a pool worker (the loop is suspended, at pc = "await", or over,
\* while units run).
C20_SingleWriter ==
    [][FrontierWritten => pc = "loop"]_vars

\* C20 amended: the three are written by the units of work themselves.  A
\* step that writes them is either the loop forming a round, which only takes
\* ids off the head of the queue, or the callback of exactly one unit on the
\* OK response to its fetch, which only adds map entries, seen ids and ids at
\* the tail of the queue; a unit that awaits, sleeps, retries or fails
\* writes nothing.
C20_UnitsWriteOneAtATime ==
    [][ FrontierWritten =>
          \/ /\ pc = "loop" /\ pc' = "await"
             /\ nodeMap' = nodeMap
             /\ queued' = queued
             /\ IsSuffix(toExpand', toExpand)
          \/ /\ pc # "loop"
             /\ Cardinality({w \in DOMAIN pool.workers : UnitCallback(w)}) = 1
             /\ \A k \in DOMAIN nodeMap : k \in DOMAIN nodeMap' /\ nodeMap'[k] = nodeMap[k]
             /\ queued \subseteq queued'
             /\ IsPrefix(toExpand, toExpand')
      ]_vars

\* a unit has stored a node and enqueued its child while the loop awaits the
\* pool call and another unit's fetch is in flight
C20_Witness ==
    /\ pc = "await"
    /\ pool.results # {}
    /\ DOMAIN calls # {}
    /\ toExpand # <<>>
    /\ \E k \in DOMAIN nodeMap : k # rootId /\ nodeMap[k].childIds # <<>>

\* the ids the server was asked for and had no document for
FetchedMissing == {n \in DOMAIN remote : ~remote[n].present}

\* C21: an id for which the response holds no document is not stored and is
\* requested once only, never put back in the queue; no failure is raised
\* unless a call has thrown; and every other id of an answered batch whose
\* document is visible is stored, with its children marked seen.
C21_MissingDocumentSkipped ==
    /\ pc = "failed" => thrown # <<>>
    /\ \A m \in DOMAIN remote :
          IF ~remote[m].present
          THEN /\ m \notin DOMAIN nodeMap
               /\ Dispatches(m) = 1
               /\ CountIn(toExpand, m) = 0
          ELSE remote[m].visible # "false" =>
                  /\ m \in DOMAIN nodeMap
                  /\ \A c \in Range(remote[m].children) :
                        (c.visible # "false" /\ c.id # NoId) => c.id \in queued

\* a crawl returned after a batch whose first id had no document and whose
\* second id was stored
C21_Witness ==
    /\ pc = "returned"
    /\ thrown = <<>>
    /\ \E i \in DOMAIN sent :
          /\ Len(sent[i].ids) = 2
          /\ sent[i].ids[1] \in FetchedMissing
          /\ sent[i].ids[2] \in DOMAIN nodeMap

\* the ids that have left the queue in a batch
DispatchedIds == UNION {Range(sent[i].ids) : i \in DOMAIN sent}

\* C22: at every state the seen set holds exactly the ids ever enqueued (those
\* still pending and those that left the queue in a batch); it contains the keys
\* of the node map and the pending queue; the pending queue holds no id twice,
\* and none that has been dispatched or stored.
C22_FrontierInvariant ==
    LET pending == Range(toExpand)
        dispatched == DispatchedIds
    IN  /\ queued = pending \cup dispatched
        /\ DOMAIN nodeMap \subseteq queued
        /\ pending \subseteq queued
        /\ \A i, j \in DOMAIN toExpand : toExpand[i] = toExpand[j] => i = j
        /\ pending \cap dispatched = {}
        /\ pending \cap DOMAIN nodeMap = {}

\* two stored nodes list the same child, which waits in the queue, once, next
\* to ids already dispatched
C22_Witness ==
    /\ toExpand # <<>>
    /\ \E a, b \in DOMAIN nodeMap :
          /\ a # b
          /\ \E c \in Range(nodeMap[a].childIds) \cap Range(nodeMap[b].childIds) :
                /\ c \in Range(toExpand)
                /\ c \notin DispatchedIds

\* the ids of a list of child entries, in the order of the list
IdsOf(entries) == [i \in DOMAIN entries |-> entries[i].id]
NotFlaggedHidden(entry) == entry.visible # "false"
NotFlaggedHiddenWithId(entry) == entry.visible # "false" /\ entry.id # NoId
NoIdTwice(ids) == \A i, j \in DOMAIN ids : ids[i] = ids[j] => i = j

\* C23 as stated: childIds is the list, in the order of children, of the ids
\* of exactly the entries whose visible flag is not false, and it holds no id
\* twice.
C23_ChildIdsShape ==
    pc = "normalized" =>
        /\ normalized.childIds = IdsOf(SelectSeq(ChildrenOf(rawNode), NotFlaggedHidden))
        /\ NoIdTwice(normalized.childIds)

\* C23: childIds is the list, in the order of children, of the ids of the
\* entries whose visible flag is not false and whose id is not empty; an id
\* that several such entries carry occurs once for each of them, so that
\* childIds holds no id twice when these entries carry distinct ids.
C23_ChildIdsOfKeptEntries ==
    pc = "normalized" =>
        LET kept == SelectSeq(ChildrenOf(rawNode), NotFlaggedHiddenWithId)
        IN  /\ normalized.childIds = IdsOf(kept)
            /\ \A id \in Range(IdsOf(kept)) :
                  CountIn(normalized.childIds, id) = CountIn(IdsOf(kept), id)
            /\ NoIdTwice(IdsOf(kept)) => NoIdTwice(normalized.childIds)

\* a node normalized whose children list a hidden entry before a visible one
C23_Witness ==
    /\ pc = "normalized"
    /\ Len(ChildrenOf(rawNode)) = 2
    /\ rawNode.children[1].visible = "false"
    /\ normalized.childIds = <<rawNode.children[2].id>>
    /\ rawNode.children[2].id # NoId

\* a node normalized whose children list the same id in two visible entries
C23_WitnessRepeatedChild ==
    /\ pc = "normalized"
    /\ Len(normalized.childIds) = 2
    /\ normalized.childIds[1] = normalized.childIds[2]

\* a node normalized whose children list holds a visible entry without an id
C23_WitnessEntryWithoutId ==
    /\ pc = "normalized"
    /\ \E i \in DOMAIN ChildrenOf(rawNode) :
          /\ rawNode.children[i].id = NoId
          /\ rawNode.children[i].visible # "false"
    /\ Len(normalized.childIds) < Len(ChildrenOf(rawNode))

\* the names deleted from the copy of the document
BannedGeometryNames == {"vectorPaths", "vectorNetwork", "vectorData"}

\* C24: for every raw node, known and other have no key in common, known has
\* allow-listed keys only, other has no allow-listed key and not children, the
\* keys of known and other together with children (when the raw node has it)
\* are the raw node's keys less the banned geometry names, and every kept
\* attribute has the value it had in the raw node.
C24_NormalizerPartition ==
    pc = "normalized" =>
        LET K == DOMAIN normalized.known
            O == DOMAIN normalized.other
            R == DOMAIN rawNode
        IN  /\ K \cap O = {}
            /\ K \subseteq knownKeys
            /\ O \cap knownKeys = {}
            /\ "children" \notin O
            /\ K \cup O \cup ({"children"} \cap R) = R \ BannedGeometryNames
            /\ \A k \in K : normalized.known[k] = rawNode[k]
            /\ \A k \in O : normalized.other[k] = rawNode[k]

\* a node normalized that had banned names, children, an allow-listed
\* attribute and one that is not allow-listed
C24_Witness ==
    /\ pc = "normalized"
    /\ BannedGeometryNames \cup {"children", "fills", "pluginData"} \subseteq DOMAIN rawNode
    /\ "fills" \in DOMAIN normalized.known
    /\ "pluginData" \in DOMAIN normalized.other

\* the ids that a document of the remote graph lists in an entry whose flag
\* is not false
VisibleStubIds(n) ==
    {remote[n].children[i].id : i \in {j \in DOMAIN remote[n].children :
                                         remote[n].children[j].visible # "false"}} \ {NoId}

\* the ids reachable from the root through documents and child entries whose
\* flag is not false, in at most k steps
RECURSIVE ReachableWithin(_)
ReachableWithin(k) ==
    IF k = 0 THEN {rootId} \cap FetchedVisible
    ELSE LET prev == ReachableWithin(k - 1)
         IN  prev \cup (FetchedVisible \cap UNION {VisibleStubIds(p) : p \in prev})

Reachable == ReachableWithin(Cardinality(DOMAIN remote))

\* C25: when a crawl has returned, the keys of the ResultMap are exactly the ids
\* reachable from the root along paths on which every document and every
\* traversed child entry has a visible flag that is not false, and every child
\* that a reachable node lists that way has been asked of the server: the key
\* set is fixed by the graph, whatever batchSize, concurrency and the order in
\* which the batches were answered.
C25_ResultIsReachableSet ==
    pc = "returned" =>
        /\ DOMAIN nodeMap = Reachable
        /\ \A p \in Reachable : VisibleStubIds(p) \subseteq DOMAIN remote

\* a crawl that had two batches in flight in one round has returned three nodes
\* or more and has left out a node that was fetched
C25_Witness ==
    /\ pc = "returned"
    /\ concurrency = 2
    /\ Cardinality(DOMAIN nodeMap) >= 3
    /\ DOMAIN remote \ DOMAIN nodeMap # {}
    /\ \E i, j \in DOMAIN sent : i # j /\ sent[i].round = sent[j].round

\* C26 as stated: once the crawl has failed, no step issues a request (a first
\* one or a retry), ends a fetch or a backoff sleep, or writes the ResultMap,
\* the seen set or the pending queue.
C26_QuiescentAfterAbort ==
    [][(pc = "failed" /\ rootId # NoId) =>
           /\ nodeMap' = nodeMap
           /\ queued' = queued
           /\ toExpand' = toExpand
           /\ calls' = calls
           /\ requestCount' = requestCount
      ]_vars

\* the ids that the stored nodes list in an entry with visible=false
HiddenStubIds ==
    UNION {{remote[p].children[i].id : i \in {j \in DOMAIN remote[p].children :
                                                 remote[p].children[j].visible = "false"}} :
              p \in DOMAIN nodeMap}

\* c is not the root, a stored node lists it, and every entry that a stored
\* node has for it carries visible=false
OnlyHiddenStub(c) ==
    /\ c # rootId
    /\ c \in HiddenStubIds
    /\ \A p \in DOMAIN nodeMap : \A i \in DOMAIN remote[p].children :
          remote[p].children[i].id = c => remote[p].children[i].visible = "false"

\* C27: an id other than the root that the stored nodes list in entries with
\* visible=false only is never in the seen set, never in the pending queue and
\* never in a dispatched batch, and the server is never asked for it.
C27_StubLevelPruning ==
    \A c \in HiddenStubIds :
        OnlyHiddenStub(c) =>
            /\ c \notin queued
            /\ c \notin Range(toExpand)
            /\ c \notin DispatchedIds
            /\ c \notin DOMAIN remote

\* a crawl returned with a stored node that lists a hidden child and a visible
\* one: the visible one was fetched, the hidden one never was
C27_Witness ==
    /\ pc = "returned"
    /\ \E c \in NodeIds :
          /\ OnlyHiddenStub(c)
          /\ c \notin queued
          /\ \E p \in DOMAIN nodeMap :
                /\ c \in StubIds(remote[p])
                /\ \E d \in Range(nodeMap[p].childIds) : d \in DispatchedIds
    /\ requestCount = Len(sent)
    /\ DispatchedIds = DOMAIN remote

\* the server has answered for the root, with no document or with a document
\* that carries visible=false
RootDropped ==
    /\ rootId \in DOMAIN remote
    /\ ~remote[rootId].present \/ remote[rootId].visible = "false"

\* C28: the first round of a crawl is one batch that holds the root id alone;
\* once the server has answered for a root that has no document or is hidden,
\* the ResultMap is empty, one batch request has been made and the loop is
\* over or about to return, with no error; with an empty root id no request is
\* ever made, the ResultMap stays empty and the loop can only return.
C28_DegenerateRoot ==
    /\ sent # <<>> =>
          /\ sent[1] = [round |-> 1, ids |-> <<rootId>>]
          /\ \A i \in DOMAIN sent : i > 1 => sent[i].round > 1
    /\ RootDropped =>
          /\ nodeMap = EmptyMap
          /\ requestCount = 1
          /\ Len(sent) = 1
          /\ thrown = <<>>
          /\ pc \in {"loop", "returned"}
          /\ pc = "loop" => (ENABLED Return /\ ~ENABLED Dispatch)
    /\ rootId = NoId =>
          /\ nodeMap = EmptyMap
          /\ requestCount = 0
          /\ sent = <<>>
          /\ remote = EmptyMap
          /\ pc = "loop" => (ENABLED Return /\ ~ENABLED Dispatch)

\* a crawl has returned after one request for a root that is hidden and has
\* children
C28_Witness ==
    /\ pc = "returned"
    /\ rootId \in FetchedHidden
    /\ remote[rootId].children # <<>>
    /\ requestCount = 1

\* a crawl has returned after one request for a root that has no document
C28_WitnessMissingRoot ==
    /\ pc = "returned"
    /\ rootId \in FetchedMissing
    /\ requestCount = 1

\* a crawl of an empty root id has returned
C28_WitnessEmptyRoot ==
    /\ pc = "returned"
    /\ rootId = NoId
    /\ pool = NoPool
    /\ call = NoCall

====
